---- MODULE Spec2Model ----
(***************************************************************************)
(* State-machine model of the two converters of osmand2qgis-style:         *)
(*   osmand2qgis_point.py  (point symbols: shield layer + icon layer)      *)
(*   osmand2qgis_road.py   (road symbols: stroke layer + fill layer)       *)
(*                                                                         *)
(* A string is a sequence of one-character strings, so that strip(),       *)
(* startswith(), replace(), title() and concatenation are computed, not    *)
(* assumed.  Element names and attribute keys are only ever compared for   *)
(* equality and are kept as plain strings.                                 *)
(*                                                                         *)
(* The source document is a sequence of nodes in document order (node 1 is *)
(* the root); a node is [elem, parent, attrib] where attrib is a function  *)
(* whose domain is the set of attributes the element carries.              *)
(***************************************************************************)
EXTENDS Naturals, Integers, Sequences, FiniteSets, TLC

VARIABLES
  script,              \* which script is run: "point" or "road"
  pc,                  \* position of the running script
  doc,                 \* the parsed default.render.xml
  present,             \* asset paths the file system has shown to exist
  absent,              \* asset paths the file system has shown not to exist
  cases,               \* point main: the list returned by root.findall
  i,                   \* point main: number of list entries already iterated
  shield,              \* point main: the last result of find_shield_value
  symbols,             \* children of the output <symbols> container, in order
  processed_count,     \* point main: tallies
  skipped_no_shield,
  skipped_no_files,
  skipped_duplicates,
  color_definitions,   \* road: the table built by extract_color_definitions
  roads,               \* road: the list returned by extract_road_info
  color_var,           \* resolve_color_variable: its first argument
  resolved             \* resolve_color_variable: its result

vars == <<script, pc, doc, present, absent, cases, i, shield, symbols,
          processed_count, skipped_no_shield, skipped_no_files,
          skipped_duplicates, color_definitions, roads, color_var, resolved>>

(***************************************************************************)
(* Bounds of the model.                                                    *)
(***************************************************************************)
\* number of elements below the root of a source document
MaxNodes == 3

(***************************************************************************)
(* Strings.                                                                *)
(***************************************************************************)
\* characters str.strip() removes
Whitespace == {" ", "\t", "\n", "\r"}

RECURSIVE LStrip(_)
LStrip(s) == IF s # <<>> /\ Head(s) \in Whitespace THEN LStrip(Tail(s)) ELSE s

RECURSIVE RStrip(_)
RStrip(s) ==
  IF s # <<>> /\ s[Len(s)] \in Whitespace
  THEN RStrip(SubSeq(s, 1, Len(s) - 1))
  ELSE s

\* a strip() that removes nothing
StripNothing(s) == s

\* str.strip()
Strip(s) == RStrip(LStrip(s))

\* dict.get(key, "")
AttrGet(attrib, key) == IF key \in DOMAIN attrib THEN attrib[key] ELSE <<>>

(***************************************************************************)
(* base64.b64encode over a sequence of bytes (0..255).                     *)
(***************************************************************************)
B64Alphabet ==
  << "A","B","C","D","E","F","G","H","I","J","K","L","M",
     "N","O","P","Q","R","S","T","U","V","W","X","Y","Z",
     "a","b","c","d","e","f","g","h","i","j","k","l","m",
     "n","o","p","q","r","s","t","u","v","w","x","y","z",
     "0","1","2","3","4","5","6","7","8","9","+","/" >>

B64Char(n) == B64Alphabet[(n % 64) + 1]

RECURSIVE b64encode(_)
b64encode(bytes) ==
  IF Len(bytes) = 0 THEN <<>>
  ELSE IF Len(bytes) = 1 THEN
    LET n == bytes[1] * 65536
    IN  << B64Char(n \div 262144), B64Char(n \div 4096), "=", "=" >>
  ELSE IF Len(bytes) = 2 THEN
    LET n == bytes[1] * 65536 + bytes[2] * 256
    IN  << B64Char(n \div 262144), B64Char(n \div 4096), B64Char(n \div 64), "=" >>
  ELSE
    LET n == bytes[1] * 65536 + bytes[2] * 256 + bytes[3]
    IN  << B64Char(n \div 262144), B64Char(n \div 4096), B64Char(n \div 64), B64Char(n) >>
        \o b64encode(SubSeq(bytes, 4, Len(bytes)))

\* f"base64:{encoded}"
Base64Tagged(bytes) == <<"b","a","s","e","6","4",":">> \o b64encode(bytes)

(***************************************************************************)
(* Asset files.                                                            *)
(***************************************************************************)
icons_dir == "OsmAnd-resources/rendering_styles/style-icons/poi-icons-svg"
shields_dir == "OsmAnd-resources/icons/svg/shields"

\* join(icons_dir, f"mx_{icon_name}.svg")
IconPath(icon_name) ==
  [dir |-> icons_dir, file |-> <<"m","x","_">> \o icon_name \o <<".","s","v","g">>]

\* join(shields_dir, f"h_{shield}.svg")
ShieldPath(sh) ==
  [dir |-> shields_dir, file |-> <<"h","_">> \o sh \o <<".","s","v","g">>]

\* f.read(): the bytes of an asset file; each file has its own content
ReadBytes(path) ==
  CASE path = IconPath(<<"i">>)   -> <<60, 105, 62>>
    [] path = IconPath(<<"j">>)   -> <<60, 106>>
    [] path = ShieldPath(<<"r">>) -> <<114>>
    [] path = ShieldPath(<<"s">>) -> <<60, 115, 47, 62>>
    [] OTHER                      -> <<>>

(***************************************************************************)
(* Source documents.                                                       *)
(***************************************************************************)
\* the root element <renderingStyle>
RootElem == [elem |-> "renderingStyle", attrib |-> <<>>]

RECURSIVE AncestorsOrSelf(_, _)
\* node n of document d and its ancestors
AncestorsOrSelf(d, n) ==
  IF n = 0 THEN {} ELSE {n} \cup AncestorsOrSelf(d, d[n].parent)

\* the documents with one more element than d: in document order the next
\* element is a child of the last element or of one of its ancestors
Extend(d, elems) ==
  {Append(d, [elem |-> e.elem, parent |-> p, attrib |-> e.attrib]) :
      p \in AncestorsOrSelf(d, Len(d)), e \in elems}

\* the document that holds the root element only
RootOnly == <<[elem |-> RootElem.elem, parent |-> 0, attrib |-> RootElem.attrib]>>

\* elements of the documents given to the point script
PointElems ==
  { [elem |-> "switch", attrib |-> [shield |-> <<"r">>]],
    [elem |-> "apply",  attrib |-> [shield |-> <<"s">>]],
    [elem |-> "group",  attrib |-> [shield |-> <<"s">>]],
    [elem |-> "case",   attrib |-> [tag |-> <<"a">>, value |-> <<"x">>, icon |-> <<"i">>]],
    [elem |-> "case",   attrib |-> [tag |-> <<"a">>, value |-> <<"x">>, icon |-> <<"i">>,
                                    shield |-> <<"s">>]],
    [elem |-> "case",   attrib |-> [tag |-> <<" ","a">>, value |-> <<"x"," ">>,
                                    icon |-> <<"j">>, shield |-> <<"s">>]],
    [elem |-> "case",   attrib |-> [tag |-> <<"a">>, value |-> <<"y">>, icon |-> <<"j">>,
                                    shield |-> <<"s">>]],
    [elem |-> "case",   attrib |-> [tag |-> <<" ">>, value |-> <<"x">>, icon |-> <<"i">>,
                                    shield |-> <<"r">>]],
    [elem |-> "case",   attrib |-> [tag |-> <<"a">>, value |-> <<"y">>, shield |-> <<"r">>]],
    [elem |-> "apply",  attrib |-> [tag |-> <<"a">>, value |-> <<"y">>, icon |-> <<"j">>]],
    [elem |-> "case",   attrib |-> [tag |-> <<"a">>, value |-> <<"y">>, icon |-> <<"i">>,
                                    shield |-> <<>>]] }

(***************************************************************************)
(* osmand2qgis_point.py                                                    *)
(***************************************************************************)
\* root.findall(".//case[@tag][@value][@icon]"): node indexes in document order
RECURSIVE FindallFrom(_, _)
FindallFrom(d, k) ==
  IF k > Len(d) THEN <<>>
  ELSE (IF /\ d[k].elem = "case"
           /\ {"tag", "value", "icon"} \subseteq DOMAIN d[k].attrib
        THEN <<k>> ELSE <<>>) \o FindallFrom(d, k + 1)

FindPointCases(d) == FindallFrom(d, 2)

\* find_shield_value: NotFound models None
NotFound == <<"None">>

RECURSIVE WalkUpAnyElement(_, _)
\* a walk that takes the shield of any ancestor, whatever its element name
WalkUpAnyElement(d, p) ==
  IF p = 0 THEN <<"None">>
  ELSE IF "shield" \in DOMAIN d[p].attrib THEN d[p].attrib["shield"]
  ELSE WalkUpAnyElement(d, d[p].parent)

RECURSIVE WalkUp(_, _)
WalkUp(d, p) ==
  IF p = 0 THEN NotFound
  ELSE IF d[p].elem = "switch" /\ "shield" \in DOMAIN d[p].attrib THEN d[p].attrib["shield"]
  ELSE IF d[p].elem = "apply" /\ "shield" \in DOMAIN d[p].attrib THEN d[p].attrib["shield"]
  ELSE WalkUp(d, d[p].parent)

find_shield_value(d, n) ==
  IF "shield" \in DOMAIN d[n].attrib
  THEN d[n].attrib["shield"]
  ELSE WalkUp(d, d[n].parent)

\* truth value of `not shield`
NoShield(sh) == sh = NotFound \/ sh = <<>>

\* a marker symbol whose icon layer comes before its shield layer
PointSymbolIconFirst(name, icon_base64, shield_base64) ==
  [ type   |-> "marker",
    name   |-> name,
    layers |-> << [pass |-> <<"0">>, class |-> "SvgMarker", name |-> icon_base64,
                   size |-> <<"4",".","4">>],
                  [pass |-> <<"0">>, class |-> "SvgMarker", name |-> shield_base64,
                   size |-> <<"6",".","8">>] >> ]

\* create_qgis_symbol(value, icon_base64, shield_base64): the marker symbol,
\* its name and its two SvgMarker layers (shield first, icon second)
PointSymbol(name, icon_base64, shield_base64) ==
  [ type   |-> "marker",
    name   |-> name,
    layers |-> << [pass |-> <<"0">>, class |-> "SvgMarker", name |-> shield_base64,
                   size |-> <<"6",".","8">>],
                  [pass |-> <<"0">>, class |-> "SvgMarker", name |-> icon_base64,
                   size |-> <<"4",".","4">>] >> ]

\* the loop variable c and the names the loop body derives from it
CurCase == doc[cases[i + 1]]
icon_name == Strip(AttrGet(CurCase.attrib, "icon"))
tag == Strip(AttrGet(CurCase.attrib, "tag"))
value == Strip(AttrGet(CurCase.attrib, "value"))
Incomplete == tag = <<>> \/ value = <<>> \/ icon_name = <<>>

\* f"{tag}:{value}"
symbol_name == tag \o <<":">> \o value

\* symbols_container.findall(f".//symbol[@name='{symbol_name}']") is non-empty
existing_symbols(name) == \E k \in DOMAIN symbols : symbols[k].name = name

CurShield == find_shield_value(doc, cases[i + 1])

InLoop == script = "point" /\ pc = "loop" /\ i < Len(cases)

\* line 196, ET.parse: the parser reads the next element of default.render.xml
ReadPointElement ==
  /\ script = "point" /\ pc = "parse"
  /\ Len(doc) <= MaxNodes
  /\ doc' \in Extend(doc, PointElems)
  /\ UNCHANGED <<script, pc, shield, present, absent, cases, i, symbols, processed_count,
                 skipped_no_shield, skipped_no_files, skipped_duplicates,
                 color_definitions, roads, color_var, resolved>>

\* lines 196-219: end of the document, findall, empty output containers,
\* zeroed tallies
ParsePoint ==
  /\ script = "point" /\ pc = "parse"
  /\ cases' = FindPointCases(doc)
  /\ symbols' = <<>>
  /\ i' = 0
  /\ shield' = NotFound
  /\ processed_count' = 0
  /\ skipped_no_shield' = 0
  /\ skipped_no_files' = 0
  /\ skipped_duplicates' = 0
  /\ pc' = "loop"
  /\ UNCHANGED <<script, doc, present, absent,
                 color_definitions, roads, color_var, resolved>>

\* lines 227-228: an empty tag, value or icon
SkipIncomplete ==
  /\ InLoop
  /\ Incomplete
  /\ i' = i + 1
  /\ UNCHANGED <<script, pc, shield, doc, present, absent, cases, symbols, processed_count,
                 skipped_no_shield, skipped_no_files, skipped_duplicates,
                 color_definitions, roads, color_var, resolved>>

\* a skip of a duplicate that is not tallied
SkipDuplicateUncounted ==
  /\ InLoop
  /\ ~Incomplete
  /\ existing_symbols(symbol_name)
  /\ i' = i + 1
  /\ UNCHANGED <<script, pc, shield, doc, present, absent, cases, symbols, processed_count,
                 skipped_no_shield, skipped_no_files, skipped_duplicates,
                 color_definitions, roads, color_var, resolved>>

\* lines 233-237
SkipDuplicate ==
  /\ InLoop
  /\ ~Incomplete
  /\ existing_symbols(symbol_name)
  /\ skipped_duplicates' = skipped_duplicates + 1
  /\ i' = i + 1
  /\ UNCHANGED <<script, pc, shield, doc, present, absent, cases, symbols, processed_count,
                 skipped_no_shield, skipped_no_files,
                 color_definitions, roads, color_var, resolved>>

\* a skip for a missing shield that is tallied as a missing file
SkipNoShieldMiscounted ==
  /\ script = "point" /\ pc = "loop" /\ i < Len(cases)
  /\ ~Incomplete
  /\ ~existing_symbols(symbol_name)
  /\ find_shield_value(doc, cases[i + 1]) \in {<<"None">>, <<>>}
  /\ skipped_no_files' = skipped_no_files + 1
  /\ shield' = find_shield_value(doc, cases[i + 1])
  /\ i' = i + 1
  /\ UNCHANGED <<script, pc, doc, present, absent, cases, symbols, processed_count,
                 skipped_no_shield, skipped_duplicates,
                 color_definitions, roads, color_var, resolved>>

\* lines 239-243
SkipNoShield ==
  /\ InLoop
  /\ ~Incomplete
  /\ ~existing_symbols(symbol_name)
  /\ NoShield(CurShield)
  /\ skipped_no_shield' = skipped_no_shield + 1
  /\ shield' = CurShield
  /\ i' = i + 1
  /\ UNCHANGED <<script, pc, doc, present, absent, cases, symbols, processed_count,
                 skipped_no_files, skipped_duplicates,
                 color_definitions, roads, color_var, resolved>>

\* lines 245-248: exists(icon_path) answers False
SkipNoIconFile ==
  /\ InLoop
  /\ ~Incomplete
  /\ ~existing_symbols(symbol_name)
  /\ ~NoShield(CurShield)
  /\ IconPath(icon_name) \notin present
  /\ absent' = absent \cup {IconPath(icon_name)}
  /\ skipped_no_files' = skipped_no_files + 1
  /\ shield' = CurShield
  /\ i' = i + 1
  /\ UNCHANGED <<script, pc, doc, present, cases, symbols, processed_count,
                 skipped_no_shield, skipped_duplicates,
                 color_definitions, roads, color_var, resolved>>

\* a skip for a missing shield file that is tallied as a missing shield
SkipNoShieldFileMiscounted ==
  /\ script = "point" /\ pc = "loop" /\ i < Len(cases)
  /\ ~Incomplete
  /\ ~existing_symbols(symbol_name)
  /\ find_shield_value(doc, cases[i + 1]) \notin {<<"None">>, <<>>}
  /\ IconPath(icon_name) \notin absent
  /\ ShieldPath(find_shield_value(doc, cases[i + 1])) \notin present
  /\ present' = present \cup {IconPath(icon_name)}
  /\ absent' = absent \cup {ShieldPath(find_shield_value(doc, cases[i + 1]))}
  /\ skipped_no_shield' = skipped_no_shield + 1
  /\ shield' = find_shield_value(doc, cases[i + 1])
  /\ i' = i + 1
  /\ UNCHANGED <<script, pc, doc, cases, symbols, processed_count,
                 skipped_no_files, skipped_duplicates,
                 color_definitions, roads, color_var, resolved>>

\* lines 245-256: the icon file is read, exists(shield_path) answers False
SkipNoShieldFile ==
  /\ InLoop
  /\ ~Incomplete
  /\ ~existing_symbols(symbol_name)
  /\ ~NoShield(CurShield)
  /\ IconPath(icon_name) \notin absent
  /\ ShieldPath(CurShield) \notin present
  /\ present' = present \cup {IconPath(icon_name)}
  /\ absent' = absent \cup {ShieldPath(CurShield)}
  /\ skipped_no_files' = skipped_no_files + 1
  /\ shield' = CurShield
  /\ i' = i + 1
  /\ UNCHANGED <<script, pc, doc, cases, symbols, processed_count,
                 skipped_no_shield, skipped_duplicates,
                 color_definitions, roads, color_var, resolved>>

\* an iteration that puts the new symbol in front of the earlier ones
AppendSymbolInFront ==
  /\ InLoop
  /\ ~Incomplete
  /\ ~existing_symbols(symbol_name)
  /\ ~NoShield(CurShield)
  /\ IconPath(icon_name) \notin absent
  /\ ShieldPath(CurShield) \notin absent
  /\ present' = present \cup {IconPath(icon_name), ShieldPath(CurShield)}
  /\ symbols' = <<PointSymbol(symbol_name,
                              Base64Tagged(ReadBytes(IconPath(icon_name))),
                              Base64Tagged(ReadBytes(ShieldPath(CurShield))))>>
                \o symbols
  /\ processed_count' = processed_count + 1
  /\ shield' = CurShield
  /\ i' = i + 1
  /\ UNCHANGED <<script, pc, doc, absent, cases, skipped_no_shield, skipped_no_files,
                 skipped_duplicates,
                 color_definitions, roads, color_var, resolved>>

\* lines 245-264: both files are read and the symbol is appended
AppendSymbol ==
  /\ InLoop
  /\ ~Incomplete
  /\ ~existing_symbols(symbol_name)
  /\ ~NoShield(CurShield)
  /\ IconPath(icon_name) \notin absent
  /\ ShieldPath(CurShield) \notin absent
  /\ present' = present \cup {IconPath(icon_name), ShieldPath(CurShield)}
  /\ symbols' = Append(symbols,
                  PointSymbol(symbol_name,
                              Base64Tagged(ReadBytes(IconPath(icon_name))),
                              Base64Tagged(ReadBytes(ShieldPath(CurShield)))))
  /\ processed_count' = processed_count + 1
  /\ shield' = CurShield
  /\ i' = i + 1
  /\ UNCHANGED <<script, pc, doc, absent, cases, skipped_no_shield, skipped_no_files,
                 skipped_duplicates,
                 color_definitions, roads, color_var, resolved>>

\* lines 266-295: the statistics are printed and examples/points.xml is written
WritePoints ==
  /\ script = "point" /\ pc = "loop" /\ i = Len(cases)
  /\ pc' = "done"
  /\ UNCHANGED <<script, shield, doc, present, absent, cases, i, symbols, processed_count,
                 skipped_no_shield, skipped_no_files, skipped_duplicates,
                 color_definitions, roads, color_var, resolved>>

InitPoint ==
  /\ script = "point"
  /\ pc = "parse"
  /\ doc = RootOnly
  /\ present = {}
  /\ absent = {}
  /\ cases = <<>>
  /\ i = 0
  /\ shield = NotFound
  /\ symbols = <<>>
  /\ processed_count = 0
  /\ skipped_no_shield = 0
  /\ skipped_no_files = 0
  /\ skipped_duplicates = 0
  /\ color_definitions = <<>>
  /\ roads = <<>>
  /\ color_var = <<>>
  /\ resolved = <<>>

NextPoint ==
  \/ ReadPointElement
  \/ ParsePoint
  \/ SkipIncomplete
  \/ SkipDuplicate
  \/ SkipNoShield
  \/ SkipNoIconFile
  \/ SkipNoShieldFile
  \/ AppendSymbol
  \/ WritePoints

SpecPoint == InitPoint /\ [][NextPoint]_vars

(***************************************************************************)
(* osmand2qgis_road.py                                                     *)
(***************************************************************************)
LowerLetters ==
  << "a","b","c","d","e","f","g","h","i","j","k","l","m",
     "n","o","p","q","r","s","t","u","v","w","x","y","z" >>
UpperLetters ==
  << "A","B","C","D","E","F","G","H","I","J","K","L","M",
     "N","O","P","Q","R","S","T","U","V","W","X","Y","Z" >>

\* the case maps of the letters, as tables
LowerToUpper == [c \in {LowerLetters[k] : k \in 1..26} |->
                   UpperLetters[CHOOSE k \in 1..26 : LowerLetters[k] = c]]
UpperToLower == [c \in {UpperLetters[k] : k \in 1..26} |->
                   LowerLetters[CHOOSE k \in 1..26 : UpperLetters[k] = c]]

IsLower(c) == c \in DOMAIN LowerToUpper
IsUpper(c) == c \in DOMAIN UpperToLower
IsCased(c) == IsLower(c) \/ IsUpper(c)
ToUpper(c) == IF IsLower(c) THEN LowerToUpper[c] ELSE c
ToLower(c) == IF IsUpper(c) THEN UpperToLower[c] ELSE c

\* str.replace(old, new) for single characters
Replace(s, old, new) == [k \in DOMAIN s |-> IF s[k] = old THEN new ELSE s[k]]

\* str.title(): a cased character is upper-cased when the character before
\* it is not cased, and lower-cased otherwise
Title(s) ==
  [k \in DOMAIN s |->
     IF k > 1 /\ IsCased(s[k - 1]) THEN ToLower(s[k]) ELSE ToUpper(s[k])]

\* sub in s
Contains(s, sub) ==
  \E k \in 0..(Len(s) - Len(sub)) : SubSeq(s, k + 1, k + Len(sub)) = sub

\* s.startswith(c) for a single character c
StartsWith(s, c) == Len(s) >= 1 /\ s[1] = c

\* element.get(key): Missing models None
Missing == <<"None">>
Get(node, key) == IF key \in DOMAIN node.attrib THEN node.attrib[key] ELSE Missing

\* truth value of a string or None
Truthy(v) == v # Missing /\ v # <<>>

\* the descendants of node n, as a sequence in document order
RECURSIVE DescendantsFrom(_, _, _)
DescendantsFrom(d, n, k) ==
  IF k > Len(d) THEN <<>>
  ELSE (IF n \in AncestorsOrSelf(d, d[k].parent) THEN <<k>> ELSE <<>>)
       \o DescendantsFrom(d, n, k + 1)

Descendants(d, n) == DescendantsFrom(d, n, n + 1)

SeqToSet(s) == {s[k] : k \in DOMAIN s}

\* resolve_color_variable
resolve_color_variable(expr, defs) ==
  IF StartsWith(expr, "$")
  THEN LET var_name == SubSeq(expr, 2, Len(expr))
       IN  IF var_name \in DOMAIN defs THEN defs[var_name] ELSE <<"#","0","0","0","0","0","0">>
  ELSE IF StartsWith(expr, "#") THEN expr
  ELSE <<"#","0","0","0","0","0","0">>

\* manual_colors, in insertion order
manual_colors ==
  << [key |-> <<"t","e","r","t","i","a","r","y","R","o","a","d","R","o","u","t","e","D","e","t","a","i","l","s","C","o","l","o","r">>,
      value |-> <<"#","f","f","d","b","9","3">>],
     [key |-> <<"f","o","o","t","w","a","y","C","o","l","o","r">>, value |-> <<"#","f","a","8","c","1","6">>],
     [key |-> <<"r","o","a","d","R","o","a","d","C","o","l","o","r">>, value |-> <<"#","c","d","c","d","c","d">>],
     [key |-> <<"b","r","i","d","l","e","w","a","y","C","o","l","o","r">>, value |-> <<"#","c","7","6","8","1","7">>],
     [key |-> <<"p","a","t","h","C","o","l","o","r">>, value |-> <<"#","f","a","8","c","1","6">>],
     [key |-> <<"c","y","c","l","e","w","a","y","C","o","l","o","r">>, value |-> <<"#","1","7","8","f","e","5">>] >>

\* attr.xpath('.//case[@attrColorValue]')
ColorCases(d, n) ==
  SelectSeq(Descendants(d, n),
            LAMBDA k : d[k].elem = "case" /\ "attrColorValue" \in DOMAIN d[k].attrib)

\* len([k for k in case.attrib.keys() if k not in ['attrColorValue']])
attr_count(d, k) == Cardinality(DOMAIN d[k].attrib \ {"attrColorValue"})

\* lines 44-54: the loop over the cases of one renderingAttribute; best is
\* 0 for None and min_attrs is -1 for infinity
RECURSIVE BestCase(_, _, _, _, _)
BestCaseLastOfTies(d, cs, j, best, min_attrs) ==
  IF j > Len(cs) THEN best
  ELSE IF /\ Truthy(d[cs[j]].attrib["attrColorValue"])
          /\ StartsWith(d[cs[j]].attrib["attrColorValue"], "#")
          /\ (min_attrs = -1 \/ attr_count(d, cs[j]) <= min_attrs)
       THEN BestCase(d, cs, j + 1, cs[j], attr_count(d, cs[j]))
       ELSE BestCase(d, cs, j + 1, best, min_attrs)

BestCase(d, cs, j, best, min_attrs) ==
  IF j > Len(cs) THEN best
  ELSE IF /\ Truthy(d[cs[j]].attrib["attrColorValue"])
          /\ StartsWith(d[cs[j]].attrib["attrColorValue"], "#")
          /\ (min_attrs = -1 \/ attr_count(d, cs[j]) < min_attrs)
       THEN BestCase(d, cs, j + 1, cs[j], attr_count(d, cs[j]))
       ELSE BestCase(d, cs, j + 1, best, min_attrs)

\* lines 37-57: the loop over root.xpath('.//renderingAttribute')
RECURSIVE ExtractedColors(_, _, _)
ExtractedColors(d, k, defs) ==
  IF k > Len(d) THEN defs
  ELSE IF /\ d[k].elem = "renderingAttribute"
          /\ Truthy(Get(d[k], "name"))
          /\ Contains(Get(d[k], "name"), <<"C","o","l","o","r">>)
          /\ BestCase(d, ColorCases(d, k), 1, 0, -1) # 0
       THEN ExtractedColors(d, k + 1,
              (Get(d[k], "name") :>
                 d[BestCase(d, ColorCases(d, k), 1, 0, -1)].attrib["attrColorValue"])
              @@ defs)
       ELSE ExtractedColors(d, k + 1, defs)

\* lines 70-72: the loop over manual_colors
RECURSIVE WithManualColors(_, _)
WithManualColorsAlways(defs, j) ==
  IF j > Len(manual_colors) THEN defs
  ELSE WithManualColors((manual_colors[j].key :> manual_colors[j].value) @@ defs, j + 1)

WithManualColors(defs, j) ==
  IF j > Len(manual_colors) THEN defs
  ELSE IF \/ manual_colors[j].key \notin DOMAIN defs
          \/ ~StartsWith(defs[manual_colors[j].key], "#")
       THEN WithManualColors((manual_colors[j].key :> manual_colors[j].value) @@ defs, j + 1)
       ELSE WithManualColors(defs, j + 1)

extract_color_definitions(d) == WithManualColors(ExtractedColors(d, 2, <<>>), 1)

(***************************************************************************)
(* extract_stroke_width_for_zoom.  Widths are in tenths.                   *)
(***************************************************************************)
\* the result of a call that raises ValueError
ValueError == -1

\* line 103
DefaultWidth == 20

\* str(zoom_level) for the zoom level of the call on line 137
zoom_level == <<"1","6">>

\* the order in which the documents write the attributes of an element;
\* etree.tostring keeps it
AttributeOrder ==
  <<"name", "tag", "value", "maxzoom", "minzoom", "color", "attrColorValue",
    "nightMode", "strokeWidth">>

\* etree.tostring(case_child): the opening tags of the element and of its
\* descendants in document order, a tag as its name followed by its key="value"
\* pairs.  The documents hold no text, and no attribute name of theirs ends
\* in another one, so the patterns can match at attribute boundaries only.
OpenTag(node) ==
  <<[key |-> "<", value |-> <<>>]>>
  \o [k \in 1..Len(SelectSeq(AttributeOrder, LAMBDA key : key \in DOMAIN node.attrib)) |->
        LET key == SelectSeq(AttributeOrder, LAMBDA a : a \in DOMAIN node.attrib)[k]
        IN  [key |-> key, value |-> node.attrib[key]]]

RECURSIVE ConcatTags(_, _, _)
ConcatTags(d, nodes, j) ==
  IF j > Len(nodes) THEN <<>> ELSE OpenTag(d[nodes[j]]) \o ConcatTags(d, nodes, j + 1)

tostring(d, n) == ConcatTags(d, <<n>> \o Descendants(d, n), 1)

\* lines 79-83: the attribute that has to stand right before strokeWidth, ""
\* for the pattern that is strokeWidth= alone
stroke_width_attrs == <<"maxzoom", "minzoom", "">>

\* the pattern matches case_str at position t
MatchesAt(case_str, attr, t) ==
  IF attr = ""
  THEN case_str[t].key = "strokeWidth"
  ELSE /\ t > 1
       /\ case_str[t - 1].key = attr /\ case_str[t - 1].value = zoom_level
       /\ case_str[t].key = "strokeWidth"

\* lines 90-94: re.search(pattern, case_str).group(1), the value of the
\* leftmost match; Missing when attr_pattern is not in case_str
Search(case_str, attr) ==
  LET hits == {t \in DOMAIN case_str : MatchesAt(case_str, attr, t)}
  IN  IF hits = {} THEN Missing
      ELSE case_str[CHOOSE t \in hits : \A u \in hits : t <= u].value

\* lines 89-94 for one case_child: the group of the first pattern, in list
\* order, that is found in its text
RECURSIVE FirstPattern(_, _)
FirstPattern(case_str, j) ==
  IF j > Len(stroke_width_attrs) THEN Missing
  ELSE IF Search(case_str, stroke_width_attrs[j]) # Missing
       THEN Search(case_str, stroke_width_attrs[j])
       ELSE FirstPattern(case_str, j + 1)

DecimalDigits == <<"0","1","2","3","4","5","6","7","8","9">>
DigitValue == [c \in {DecimalDigits[k] : k \in 1..10} |->
                 (CHOOSE k \in 1..10 : DecimalDigits[k] = c) - 1]
IsDigit(c) == c \in DOMAIN DigitValue

RECURSIVE IntValue(_)
IntValue(s) == IF s = <<>> THEN 0
               ELSE 10 * IntValue(SubSeq(s, 1, Len(s) - 1)) + DigitValue[s[Len(s)]]

\* the part of s before the first c, all of s when c is not in s
Before(s, c) ==
  IF \E k \in DOMAIN s : s[k] = c
  THEN SubSeq(s, 1, (CHOOSE k \in DOMAIN s : s[k] = c /\ \A j \in 1..(k - 1) : s[j] # c) - 1)
  ELSE s

\* the part of s after the first c, empty when c is not in s
After(s, c) ==
  IF \E k \in DOMAIN s : s[k] = c
  THEN SubSeq(s, (CHOOSE k \in DOMAIN s : s[k] = c /\ \A j \in 1..(k - 1) : s[j] # c) + 1, Len(s))
  ELSE <<>>

\* float(s), in tenths.  The numerals of the documents have at most one digit
\* after the point; their other texts (empty, letters, a "$" reference) raise
\* ValueError.
float(s) ==
  LET whole == Before(s, ".")
      frac  == After(s, ".")
  IN  IF /\ \A k \in DOMAIN whole : IsDigit(whole[k])
         /\ \A k \in DOMAIN frac : IsDigit(frac[k])
         /\ Len(whole) + Len(frac) >= 1
         /\ Len(frac) <= 1
      THEN 10 * IntValue(whole) + IntValue(frac)
      ELSE ValueError

\* lines 96-100
ParseWidth(width_str) ==
  IF \E k \in DOMAIN width_str : width_str[k] = ":"
  THEN float(Before(width_str, ":"))
  ELSE float(width_str)

\* lines 86-87: the case elements below the apply elements below the case, in
\* the order of the two loops
RECURSIVE CaseChildren(_, _, _)
CaseChildren(d, applies, j) ==
  IF j > Len(applies) THEN <<>>
  ELSE SelectSeq(Descendants(d, applies[j]), LAMBDA c : d[c].elem = "case")
       \o CaseChildren(d, applies, j + 1)

\* lines 86-103: the first case_child whose text holds a pattern decides,
\* whatever its zoom level; without one, the default
extract_stroke_width_for_zoom(d, n) ==
  LET applies == SelectSeq(Descendants(d, n), LAMBDA a : d[a].elem = "apply")
      visit   == CaseChildren(d, applies, 1)
      found   == SelectSeq(visit, LAMBDA c : FirstPattern(tostring(d, c), 1) # Missing)
  IN  IF found = <<>> THEN DefaultWidth
      ELSE ParseWidth(FirstPattern(tostring(d, found[1]), 1))

\* f"Road {value.replace('_', ' ').title()}"
RoadSymbolName(v) == <<"R","o","a","d"," ">> \o Title(Replace(v, "_", " "))

\* root.xpath('.//line')
LineSections(d) == SelectSeq(Descendants(d, 1), LAMBDA k : d[k].elem = "line")

\* line_section.xpath('.//switch[@minzoom="14"]')
HighZoomSwitches(d, line) ==
  SelectSeq(Descendants(d, line),
            LAMBDA k : d[k].elem = "switch" /\ Get(d[k], "minzoom") = <<"1","4">>)

\* switch.xpath('.//case[@tag="highway"][@value][@color]')
HighwayCases(d, sw) ==
  SelectSeq(Descendants(d, sw),
            LAMBDA k : /\ d[k].elem = "case"
                       /\ Get(d[k], "tag") = <<"h","i","g","h","w","a","y">>
                       /\ {"value", "color"} \subseteq DOMAIN d[k].attrib)

\* the cases in the order in which the two nested loops (lines 118-122)
\* visit them
RECURSIVE VisitOrder(_, _, _)
VisitOrder(d, switches, j) ==
  IF j > Len(switches) THEN <<>>
  ELSE HighwayCases(d, switches[j]) \o VisitOrder(d, switches, j + 1)

\* lines 139-145
RoadRecord(d, k, defs) ==
  [ tag          |-> Get(d[k], "tag"),
    value        |-> Get(d[k], "value"),
    color        |-> resolve_color_variable(Get(d[k], "color"), defs),
    symbol_name  |-> RoadSymbolName(Get(d[k], "value")),
    stroke_width |-> extract_stroke_width_for_zoom(d, k) ]

\* lines 122-145: the body of the loops, over the visit order; st holds
\* processed_highways and roads
RECURSIVE DocumentRoads(_, _, _, _, _)
DocumentRoadsNoDedup(d, visit, j, defs, st) ==
  IF j > Len(visit) THEN st
  ELSE IF /\ Get(d[visit[j]], "tag") = <<"h","i","g","h","w","a","y">>
          /\ Truthy(Get(d[visit[j]], "value"))
          /\ Truthy(Get(d[visit[j]], "color"))
       THEN DocumentRoads(d, visit, j + 1, defs,
              [ processed_highways |-> st.processed_highways \cup {Get(d[visit[j]], "value")},
                roads |-> Append(st.roads, RoadRecord(d, visit[j], defs)) ])
       ELSE DocumentRoads(d, visit, j + 1, defs, st)

DocumentRoads(d, visit, j, defs, st) ==
  IF j > Len(visit) THEN st
  ELSE IF /\ Get(d[visit[j]], "tag") = <<"h","i","g","h","w","a","y">>
          /\ Truthy(Get(d[visit[j]], "value"))
          /\ Truthy(Get(d[visit[j]], "color"))
          /\ Get(d[visit[j]], "value") \notin st.processed_highways
       THEN DocumentRoads(d, visit, j + 1, defs,
              [ processed_highways |-> st.processed_highways \cup {Get(d[visit[j]], "value")},
                roads |-> Append(st.roads, RoadRecord(d, visit[j], defs)) ])
       ELSE DocumentRoads(d, visit, j + 1, defs, st)

\* additional_roads, widths in tenths
additional_roads ==
  << [value |-> <<"s","e","r","v","i","c","e">>, color_var |-> <<"$","s","e","r","v","i","c","e","R","o","a","d","C","o","l","o","r">>, width |-> 15],
     [value |-> <<"p","e","d","e","s","t","r","i","a","n">>, color_var |-> <<"$","p","e","d","e","s","t","r","i","a","n","R","o","a","d","C","o","l","o","r">>, width |-> 12],
     [value |-> <<"f","o","o","t","w","a","y">>, color_var |-> <<"$","f","o","o","t","w","a","y","C","o","l","o","r">>, width |-> 10],
     [value |-> <<"c","y","c","l","e","w","a","y">>, color_var |-> <<"$","c","y","c","l","e","w","a","y","C","o","l","o","r">>, width |-> 10],
     [value |-> <<"p","a","t","h">>, color_var |-> <<"$","p","a","t","h","C","o","l","o","r">>, width |-> 10],
     [value |-> <<"b","r","i","d","l","e","w","a","y">>, color_var |-> <<"$","b","r","i","d","l","e","w","a","y","C","o","l","o","r">>, width |-> 10],
     [value |-> <<"s","t","e","p","s">>, color_var |-> <<"$","f","o","o","t","w","a","y","C","o","l","o","r">>, width |-> 10],
     [value |-> <<"l","i","v","i","n","g","_","s","t","r","e","e","t">>, color_var |-> <<"$","r","e","s","i","d","e","n","t","i","a","l","R","o","a","d","C","o","l","o","r">>, width |-> 18],
     [value |-> <<"r","o","a","d">>, color_var |-> <<"$","r","o","a","d","R","o","a","d","C","o","l","o","r">>, width |-> 15] >>

\* lines 162-173: the loop over additional_roads
RECURSIVE WithAdditionalRoads(_, _, _, _)
WithAdditionalRoadsAlways(defs, j, processed, rs) ==
  IF j > Len(additional_roads) THEN rs
  ELSE WithAdditionalRoads(defs, j + 1, processed,
         Append(rs, [ tag          |-> <<"h","i","g","h","w","a","y">>,
                      value        |-> additional_roads[j].value,
                      color        |-> resolve_color_variable(additional_roads[j].color_var, defs),
                      symbol_name  |-> RoadSymbolName(additional_roads[j].value),
                      stroke_width |-> additional_roads[j].width ]))

WithAdditionalRoads(defs, j, processed, rs) ==
  IF j > Len(additional_roads) THEN rs
  ELSE IF additional_roads[j].value \notin processed
       THEN WithAdditionalRoads(defs, j + 1, processed,
              Append(rs, [ tag          |-> <<"h","i","g","h","w","a","y">>,
                           value        |-> additional_roads[j].value,
                           color        |-> resolve_color_variable(additional_roads[j].color_var, defs),
                           symbol_name  |-> RoadSymbolName(additional_roads[j].value),
                           stroke_width |-> additional_roads[j].width ]))
       ELSE WithAdditionalRoads(defs, j + 1, processed, rs)

\* extract_road_info, for a document that has a line element
extract_road_info(d, defs) ==
  LET line_section == LineSections(d)[1]
      visit == VisitOrder(d, HighZoomSwitches(d, line_section), 1)
      st == DocumentRoads(d, visit, 1, defs, [processed_highways |-> {}, roads |-> <<>>])
  IN  WithAdditionalRoads(defs, 1, st.processed_highways, st.roads)

\* int(x, 16) on one character: the digits in either case
HexDigits == <<"0","1","2","3","4","5","6","7","8","9","a","b","c","d","e","f">>
HexDigitValue ==
  [c \in {HexDigits[k] : k \in 1..16} \cup {ToUpper(HexDigits[k]) : k \in 1..16} |->
     (CHOOSE k \in 1..16 : HexDigits[k] = ToLower(c)) - 1]
IsHexDigit(c) == c \in DOMAIN HexDigitValue
HexValue(c) == HexDigitValue[c]

RECURSIVE LStripHash(_)
\* hex_color.lstrip('#')
LStripHash(s) == IF s # <<>> /\ Head(s) = "#" THEN LStripHash(Tail(s)) ELSE s

hex_to_rgb(hex_color) ==
  LET h == LStripHash(hex_color)
  IN  IF Len(h) = 6
      THEN IF \A k \in 1..6 : IsHexDigit(h[k])
           THEN [ r |-> 16 * HexValue(h[1]) + HexValue(h[2]),
                  g |-> 16 * HexValue(h[3]) + HexValue(h[4]),
                  b |-> 16 * HexValue(h[5]) + HexValue(h[6]),
                  a |-> 255 ]
           ELSE "ValueError"
      ELSE [r |-> 0, g |-> 0, b |-> 0, a |-> 255]

\* hex_to_rgb raises: int(…, 16) on line 16, 17 or 18 meets a character that
\* is no hex digit
HexRaises(hex_color) ==
  LET h == LStripHash(hex_color)
  IN  Len(h) = 6 /\ \E k \in 1..6 : ~IsHexDigit(h[k])

RECURSIVE IntToText(_)
\* the decimal digits of a natural number
IntToText(n) ==
  IF n < 10 THEN <<DecimalDigits[n + 1]>>
  ELSE IntToText(n \div 10) \o <<DecimalDigits[(n % 10) + 1]>>

\* str(stroke_width) for a float given in tenths: the shortest numeral that
\* reads back as the float, always with a point
StrFloat(tenths) == IntToText(tenths \div 10) \o <<".">> \o IntToText(tenths % 10)

\* main_width_ratio=0.8, in tenths
main_width_ratio == 8

\* f"{main_width:.5f}" for a width given in hundredths: five digits after the
\* point.  The product of line 287 is off the exact hundredths by less than
\* 1e-15, which the rounding to five decimals removes.
Format5f(hundredths) ==
  IntToText(hundredths \div 100) \o <<".">>
  \o IntToText((hundredths % 100) \div 10) \o IntToText(hundredths % 10)
  \o <<"0", "0", "0">>

\* create_qgis_symbol with a main layer as wide as the stroke layer
RoadSymbolUnscaled(road_info) ==
  [ type   |-> "line",
    name   |-> road_info.symbol_name,
    layers |-> << [pass |-> <<"0">>, class |-> "SimpleLine",
                   line_color |-> hex_to_rgb(<<"#","5","6","5","6","5","6">>),
                   line_width |-> StrFloat(road_info.stroke_width)],
                  [pass |-> <<"1">>, class |-> "SimpleLine",
                   line_color |-> hex_to_rgb(road_info.color),
                   line_width |-> Format5f(road_info.stroke_width * 10)] >> ]

\* create_qgis_symbol(road_info): the line symbol, its name and its two
\* SimpleLine layers (stroke first, main second)
RoadSymbol(road_info) ==
  [ type   |-> "line",
    name   |-> road_info.symbol_name,
    layers |-> << [pass |-> <<"0">>, class |-> "SimpleLine",
                   line_color |-> hex_to_rgb(<<"#","5","6","5","6","5","6">>),
                   line_width |-> StrFloat(road_info.stroke_width)],
                  [pass |-> <<"1">>, class |-> "SimpleLine",
                   line_color |-> hex_to_rgb(road_info.color),
                   line_width |-> Format5f(road_info.stroke_width * main_width_ratio)] >> ]

\* elements of the documents given to the road script
RoadElems ==
  { [elem |-> "line",   attrib |-> <<>>],
    [elem |-> "switch", attrib |-> [minzoom |-> <<"1","4">>]],
    [elem |-> "switch", attrib |-> [minzoom |-> <<"1","5">>]],
    [elem |-> "case",   attrib |-> [tag |-> <<"h","i","g","h","w","a","y">>, value |-> <<"S","e","r","v","i","c","e">>,
                                    color |-> <<"#","a","a","a","a","a","a">>]],
    [elem |-> "case",   attrib |-> [tag |-> <<"h","i","g","h","w","a","y">>, value |-> <<"s","e","r","v","i","c","e">>,
                                    color |-> <<"#","b","b","b","b","b","b">>]],
    [elem |-> "case",   attrib |-> [tag |-> <<"h","i","g","h","w","a","y">>, value |-> <<"s","e","r","v","i","c","e">>,
                                    color |-> <<"$","s","e","r","v","i","c","e","R","o","a","d","C","o","l","o","r">>,
                                    attrColorValue |-> <<"#","1","1","1","1","1","g">>]],
    [elem |-> "case",   attrib |-> [tag |-> <<"h","i","g","h","w","a","y">>, value |-> <<>>,
                                    color |-> <<"#","c","c","c","c","c","c">>]],
    [elem |-> "renderingAttribute", attrib |-> [name |-> <<"s","e","r","v","i","c","e","R","o","a","d","C","o","l","o","r">>]] }

\* elements of the documents that exercise the colour table
ColorElems ==
  { [elem |-> "renderingAttribute", attrib |-> [name |-> <<"f","o","o","t","w","a","y","C","o","l","o","r">>]],
    [elem |-> "renderingAttribute", attrib |-> [name |-> <<"p","e","d","e","s","t","r","i","a","n","R","o","a","d","C","o","l","o","r">>]],
    [elem |-> "renderingAttribute", attrib |-> [name |-> <<"r","o","a","d","W","i","d","t","h">>]],
    [elem |-> "case",   attrib |-> [attrColorValue |-> <<"#","1","1","1","1","1","1">>]],
    [elem |-> "case",   attrib |-> [attrColorValue |-> <<"#","4","4","4","4","4","4">>]],
    [elem |-> "case",   attrib |-> [attrColorValue |-> <<"#","2","2","2","2","2","2">>, nightMode |-> <<"t","r","u","e">>]],
    [elem |-> "case",   attrib |-> [attrColorValue |-> <<"$","x">>]] }

\* the document that opens with the <line> section
RootAndLine == Append(RootOnly, [elem |-> "line", parent |-> 1, attrib |-> <<>>])

PointIdle ==
  UNCHANGED <<present, absent, cases, i, shield, processed_count,
              skipped_no_shield, skipped_no_files, skipped_duplicates,
              color_var, resolved>>

\* line 348, etree.parse: the parser reads the next element of the document
ReadRoadElement ==
  /\ script = "road" /\ pc = "parse"
  /\ Len(doc) <= MaxNodes + (IF Len(doc) >= 2 /\ doc[2].elem = "line" THEN 1 ELSE 0)
  /\ doc' \in Extend(doc, RoadElems)
  /\ UNCHANGED <<script, pc, symbols, color_definitions, roads>>
  /\ PointIdle

ReadColorElement ==
  /\ script = "road" /\ pc = "parse"
  /\ Len(doc) <= MaxNodes + (IF Len(doc) >= 2 /\ doc[2].elem = "line" THEN 1 ELSE 0)
  /\ doc' \in Extend(doc, ColorElems)
  /\ UNCHANGED <<script, pc, symbols, color_definitions, roads>>
  /\ PointIdle

\* lines 348-353: end of the document, the colour table is built
ExtractColorDefinitions ==
  /\ script = "road" /\ pc = "parse"
  /\ color_definitions' = extract_color_definitions(doc)
  /\ pc' = "colors"
  /\ UNCHANGED <<script, doc, symbols, roads>>
  /\ PointIdle

\* a float() of lines 98-100 raised while the list was built
Raised(rs) == \E k \in DOMAIN rs : rs[k].stroke_width = ValueError

\* line 356 with line 110: a document without a line element ends the run
\* with an IndexError; with lines 98-100: a width that is not a numeral ends
\* it with a ValueError
ExtractRoadInfoFails ==
  /\ script = "road" /\ pc = "colors"
  /\ IF LineSections(doc) = <<>> THEN TRUE
     ELSE Raised(extract_road_info(doc, color_definitions))
  /\ pc' = "failed"
  /\ UNCHANGED <<script, doc, symbols, color_definitions, roads>>
  /\ PointIdle

\* lines 356-357
ExtractRoadInfo ==
  /\ script = "road" /\ pc = "colors"
  /\ LineSections(doc) # <<>>
  /\ roads' = extract_road_info(doc, color_definitions)
  /\ ~Raised(roads')
  /\ pc' = "roads"
  /\ UNCHANGED <<script, doc, symbols, color_definitions>>
  /\ PointIdle

\* lines 359-387: a symbol per road, in list order, and the output is written;
\* a colour that makes hex_to_rgb raise ends the run before anything is
\* written
GenerateStyle ==
  /\ script = "road" /\ pc = "roads"
  /\ IF \E k \in DOMAIN roads : HexRaises(roads[k].color)
     THEN symbols' = symbols /\ pc' = "failed"
     ELSE symbols' = [k \in DOMAIN roads |-> RoadSymbol(roads[k])] /\ pc' = "done"
  /\ UNCHANGED <<script, doc, color_definitions, roads>>
  /\ PointIdle

InitRoad ==
  /\ script = "road"
  /\ pc = "parse"
  /\ doc \in {RootOnly, RootAndLine}
  /\ present = {}
  /\ absent = {}
  /\ cases = <<>>
  /\ i = 0
  /\ shield = NotFound
  /\ symbols = <<>>
  /\ processed_count = 0
  /\ skipped_no_shield = 0
  /\ skipped_no_files = 0
  /\ skipped_duplicates = 0
  /\ color_definitions = <<>>
  /\ roads = <<>>
  /\ color_var = <<>>
  /\ resolved = <<>>

RoadSteps ==
  \/ ExtractColorDefinitions
  \/ ExtractRoadInfoFails
  \/ ExtractRoadInfo
  \/ GenerateStyle

NextRoad == ReadRoadElement \/ RoadSteps

SpecRoad == InitRoad /\ [][NextRoad]_vars

NextColors == ReadColorElement \/ RoadSteps

SpecColors == InitRoad /\ [][NextColors]_vars

(***************************************************************************)
(* The road script on documents that open with a road rule and go on with  *)
(* the rules nested in it.                                                 *)
(***************************************************************************)
\* elements of the documents that exercise the stroke width
StrokeElems ==
  { [elem |-> "apply", attrib |-> <<>>],
    [elem |-> "case",  attrib |-> [minzoom |-> <<"1","6">>, strokeWidth |-> <<"5">>]],
    [elem |-> "case",  attrib |-> [minzoom |-> <<"1","5">>, strokeWidth |-> <<"3">>]],
    [elem |-> "case",  attrib |-> [maxzoom |-> <<"1","6">>, strokeWidth |-> <<"4",".","5",":","4",".","5">>]],
    [elem |-> "case",  attrib |-> [minzoom |-> <<"1","6">>, color |-> <<"#","a","a","a","a","a","a">>, strokeWidth |-> <<"4",":","4">>]],
    [elem |-> "case",  attrib |-> [strokeWidth |-> <<"$","w">>]],
    [elem |-> "case",  attrib |-> [nightMode |-> <<"t","r","u","e">>]] }

\* <renderingStyle><line><switch minzoom="14"><case tag="highway"
\* value="track" color="#aaaaaa">
RoadRulePrefix ==
  << [elem |-> RootElem.elem, parent |-> 0, attrib |-> RootElem.attrib],
     [elem |-> "line", parent |-> 1, attrib |-> <<>>],
     [elem |-> "switch", parent |-> 2, attrib |-> [minzoom |-> <<"1","4">>]],
     [elem |-> "case", parent |-> 3,
      attrib |-> [tag |-> <<"h","i","g","h","w","a","y">>, value |-> <<"t","r","a","c","k">>, color |-> <<"#","a","a","a","a","a","a">>]] >>

\* line 348, etree.parse: the parser reads the next element of the document
ReadStrokeElement ==
  /\ script = "road" /\ pc = "parse"
  /\ Len(doc) < Len(RoadRulePrefix) + MaxNodes
  /\ doc' \in Extend(doc, StrokeElems)
  /\ UNCHANGED <<script, pc, symbols, color_definitions, roads>>
  /\ PointIdle

InitStroke ==
  /\ script = "road"
  /\ pc = "parse"
  /\ doc = RoadRulePrefix
  /\ present = {}
  /\ absent = {}
  /\ cases = <<>>
  /\ i = 0
  /\ shield = NotFound
  /\ symbols = <<>>
  /\ processed_count = 0
  /\ skipped_no_shield = 0
  /\ skipped_no_files = 0
  /\ skipped_duplicates = 0
  /\ color_definitions = <<>>
  /\ roads = <<>>
  /\ color_var = <<>>
  /\ resolved = <<>>

NextStroke == ReadStrokeElement \/ RoadSteps

SpecStroke == InitStroke /\ [][NextStroke]_vars

(***************************************************************************)
(* resolve_color_variable on its own: the argument is typed character by   *)
(* character, then the function is applied.                                *)
(***************************************************************************)
\* length of the longest colour expression
MaxColorLen == 7

ColorChars == {"$", "#", "f", "g"}

\* the tables the function is applied to
ResolveTables == { <<>>, (<<"g">> :> <<"#","f","f","f","f","f","f">>) }

TypeColorChar ==
  /\ script = "resolve" /\ pc = "input"
  /\ Len(color_var) < MaxColorLen
  /\ \E c \in ColorChars : color_var' = Append(color_var, c)
  /\ UNCHANGED <<script, pc, doc, present, absent, cases, i, shield, symbols,
                 processed_count, skipped_no_shield, skipped_no_files,
                 skipped_duplicates, color_definitions, roads, resolved>>

ResolveColor ==
  /\ script = "resolve" /\ pc = "input"
  /\ resolved' = resolve_color_variable(color_var, color_definitions)
  /\ pc' = "done"
  /\ UNCHANGED <<script, doc, present, absent, cases, i, shield, symbols,
                 processed_count, skipped_no_shield, skipped_no_files,
                 skipped_duplicates, color_definitions, roads, color_var>>

InitResolve ==
  /\ script = "resolve"
  /\ pc = "input"
  /\ doc = RootOnly
  /\ present = {}
  /\ absent = {}
  /\ cases = <<>>
  /\ i = 0
  /\ shield = NotFound
  /\ symbols = <<>>
  /\ processed_count = 0
  /\ skipped_no_shield = 0
  /\ skipped_no_files = 0
  /\ skipped_duplicates = 0
  /\ color_definitions \in ResolveTables
  /\ roads = <<>>
  /\ color_var = <<>>
  /\ resolved = <<>>

NextResolve == TypeColorChar \/ ResolveColor

SpecResolve == InitResolve /\ [][NextResolve]_vars

\* either script on its documents
Init == InitPoint \/ InitRoad
Next == NextPoint \/ NextRoad
Spec == Init /\ [][Next]_vars

(***************************************************************************)
(* Vocabulary of the properties of the point script.                       *)
(***************************************************************************)
\* absent, empty or whitespace-only
Blank(n, key) ==
  \/ key \notin DOMAIN doc[n].attrib
  \/ \A k \in DOMAIN doc[n].attrib[key] : doc[n].attrib[key][k] \in Whitespace

\* a descendant of the root with non-empty tag, value and icon
IsPointRule(n) ==
  /\ n \in 2..Len(doc)
  /\ ~Blank(n, "tag") /\ ~Blank(n, "value") /\ ~Blank(n, "icon")

IsCaseRule(n) == IsPointRule(n) /\ doc[n].elem = "case"

\* the entries of a list of nodes that are rules
RulesIn(list) == SelectSeq(list, IsCaseRule)
AnyRulesIn(list) == SelectSeq(list, IsPointRule)

\* the nodes 1..n of the document, in document order
Upto(n) == [k \in 1..n |-> k]

\* the switch and apply ancestors of n that carry a shield attribute
ShieldCarriers(n) ==
  {a \in AncestorsOrSelf(doc, doc[n].parent) :
      doc[a].elem \in {"switch", "apply"} /\ "shield" \in DOMAIN doc[a].attrib}

\* in document order an ancestor comes before its descendants: the nearest
\* of a set of ancestors is the last of them
Nearest(S) == CHOOSE a \in S : \A b \in S : b <= a

ExpectedShield(n) ==
  IF "shield" \in DOMAIN doc[n].attrib THEN doc[n].attrib["shield"]
  ELSE IF ShieldCarriers(n) = {} THEN NotFound
  ELSE doc[Nearest(ShieldCarriers(n))].attrib["shield"]

Resolvable(n) == ExpectedShield(n) # NotFound /\ ExpectedShield(n) # <<>>

NameOf(n) == Strip(doc[n].attrib["tag"]) \o <<":">> \o Strip(doc[n].attrib["value"])
IconFileOf(n) == IconPath(Strip(doc[n].attrib["icon"]))
ShieldFileOf(n) == ShieldPath(ExpectedShield(n))

NameInOutput(name) == \E k \in DOMAIN symbols : symbols[k].name = name

Tally == processed_count + skipped_duplicates + skipped_no_shield + skipped_no_files

\* the symbols of the output that carry the name
Named(name) == {k \in DOMAIN symbols : symbols[k].name = name}

\* symbol k has two pass-0 layers that embed the shield file and the icon
\* file of rule n, in this order
EmbedsAssetsOf(k, n) ==
  /\ Len(symbols[k].layers) = 2
  /\ symbols[k].layers[1].pass = <<"0">>
  /\ symbols[k].layers[2].pass = <<"0">>
  /\ symbols[k].layers[1].name
       = <<"b","a","s","e","6","4",":">> \o b64encode(ReadBytes(ShieldFileOf(n)))
  /\ symbols[k].layers[2].name
       = <<"b","a","s","e","6","4",":">> \o b64encode(ReadBytes(IconFileOf(n)))

\* a rule with a resolvable shield whose two asset files exist
Emittable(n) ==
  /\ Resolvable(n)
  /\ IconFileOf(n) \in present
  /\ ShieldFileOf(n) \in present

\* the first emittable case rule that has the name of rule n
FirstOfName(n) ==
  CHOOSE m \in 2..Len(doc) :
    /\ IsCaseRule(m) /\ Emittable(m) /\ NameOf(m) = NameOf(n)
    /\ \A l \in 2..(m - 1) : ~(IsCaseRule(l) /\ Emittable(l) /\ NameOf(l) = NameOf(n))

(***************************************************************************)
(* C2                                                                      *)
(***************************************************************************)
\* C2 as stated: at the end of the point script every rule with non-empty
\* tag, value and icon, a resolvable shield and both asset files present has
\* exactly one symbol "tag:value", whose two pass-0 layers embed the rule's
\* own shield file and icon file (read here for the case elements only, the
\* elements the script iterates over).
C2_OwnAssetsOfEveryRule ==
  (script = "point" /\ pc = "done") =>
    \A n \in 2..Len(doc) :
      (IsCaseRule(n) /\ Emittable(n)) =>
        /\ Cardinality(Named(NameOf(n))) = 1
        /\ \A k \in Named(NameOf(n)) : EmbedsAssetsOf(k, n)

\* C2 amended: at the end of the point script every case rule with non-empty
\* tag, value and icon, a resolvable shield and both asset files present has
\* exactly one symbol "tag:value", whose two pass-0 layers embed the shield
\* file and the icon file of the first such rule of that name.
C2_AssetsOfFirstRuleOfName ==
  (script = "point" /\ pc = "done") =>
    \A n \in 2..Len(doc) :
      (IsCaseRule(n) /\ Emittable(n)) =>
        /\ Cardinality(Named(NameOf(n))) = 1
        /\ \A k \in Named(NameOf(n)) : EmbedsAssetsOf(k, FirstOfName(n))

\* C2 witness: the script has ended on a document where two emittable case
\* rules share a name and differ in their icon
C2_Witness ==
  /\ script = "point" /\ pc = "done"
  /\ \E n, m \in 2..Len(doc) :
       /\ n < m
       /\ IsCaseRule(n) /\ Emittable(n)
       /\ IsCaseRule(m) /\ Emittable(m)
       /\ NameOf(n) = NameOf(m)
       /\ IconFileOf(n) # IconFileOf(m)
       /\ Named(NameOf(m)) # {}

(***************************************************************************)
(* C3                                                                      *)
(***************************************************************************)
\* C3 as stated: an iteration over a rule for which the shield lookup finds
\* nothing appends no symbol and adds one to skipped_no_shield, whatever
\* was processed before.
C3_NoShieldAlwaysCounted ==
  [][ (InLoop /\ IsPointRule(cases[i + 1]) /\ ExpectedShield(cases[i + 1]) = NotFound)
        => (symbols' = symbols /\ skipped_no_shield' = skipped_no_shield + 1) ]_vars

\* C3 amended: an iteration over a rule whose name is not yet in the output
\* and for which the shield lookup finds nothing appends no symbol and adds
\* one to skipped_no_shield.
C3_NoShieldCountedUnlessDuplicate ==
  [][ (/\ InLoop /\ IsPointRule(cases[i + 1])
       /\ ExpectedShield(cases[i + 1]) = NotFound
       /\ ~NameInOutput(NameOf(cases[i + 1])))
        => (symbols' = symbols /\ skipped_no_shield' = skipped_no_shield + 1) ]_vars

\* C3 witness: after some symbol was emitted, the last iteration was over a
\* rule without a shield on any ancestor and it was tallied as "no shield"
C3_Witness ==
  /\ script = "point" /\ pc = "loop" /\ i >= 2
  /\ symbols # <<>>
  /\ IsCaseRule(cases[i])
  /\ ExpectedShield(cases[i]) = NotFound
  /\ ~NameInOutput(NameOf(cases[i]))
  /\ skipped_no_shield = 1
  /\ shield = NotFound

(***************************************************************************)
(* C4                                                                      *)
(***************************************************************************)
\* the icon file or the shield file of rule n is known not to exist
MissingFile(n, gone) ==
  \/ IconFileOf(n) \in gone
  \/ (Resolvable(n) /\ ShieldFileOf(n) \in gone)

\* C4 as stated: an iteration over a rule whose icon file or shield file does
\* not exist appends no symbol and adds exactly one to skipped_no_files,
\* whatever was processed before.
C4_MissingFileAlwaysCounted ==
  [][ (InLoop /\ IsPointRule(cases[i + 1]) /\ MissingFile(cases[i + 1], absent'))
        => (symbols' = symbols /\ skipped_no_files' = skipped_no_files + 1) ]_vars

\* C4 amended: an iteration over a rule whose name is not yet in the output,
\* whose shield is resolvable and whose icon file or shield file does not
\* exist appends no symbol and adds exactly one to skipped_no_files.
C4_MissingFileCountedOnce ==
  [][ (/\ InLoop /\ IsPointRule(cases[i + 1])
       /\ ~NameInOutput(NameOf(cases[i + 1]))
       /\ Resolvable(cases[i + 1])
       /\ MissingFile(cases[i + 1], absent'))
        => (symbols' = symbols /\ skipped_no_files' = skipped_no_files + 1) ]_vars

\* C4 witness: the second iteration was over a rule both of whose files are
\* absent, and the tally went from one to two
C4_Witness ==
  /\ script = "point" /\ pc = "loop" /\ i = 2
  /\ IsCaseRule(cases[1]) /\ IsCaseRule(cases[2])
  /\ Resolvable(cases[2])
  /\ IconFileOf(cases[2]) \in absent
  /\ ShieldFileOf(cases[2]) \in absent
  /\ skipped_no_files = 2
  /\ symbols = <<>>

(***************************************************************************)
(* C5                                                                      *)
(***************************************************************************)
\* C5: whenever the loop looks a shield up, the result is the rule's own
\* shield attribute if it has one, else the shield attribute of the nearest
\* switch or apply ancestor that has one, else None; and a rule whose result
\* is None or empty is skipped and tallied, the loop going on.
C5_FindShieldValue ==
  [][ (InLoop /\ IsPointRule(cases[i + 1]) /\ ~NameInOutput(NameOf(cases[i + 1])))
        => /\ shield' = ExpectedShield(cases[i + 1])
           /\ ~Resolvable(cases[i + 1])
                => /\ symbols' = symbols
                   /\ skipped_no_shield' = skipped_no_shield + 1
                   /\ i' = i + 1
                   /\ pc' = "loop" ]_vars

\* C5 witness: the last lookup was for a rule without a shield of its own
\* whose parent is neither switch nor apply and carries a shield; the result
\* came from an ancestor further up
C5_Witness ==
  /\ script = "point" /\ pc = "loop" /\ i >= 1
  /\ IsCaseRule(cases[i])
  /\ "shield" \notin DOMAIN doc[cases[i]].attrib
  /\ doc[doc[cases[i]].parent].elem = "group"
  /\ "shield" \in DOMAIN doc[doc[cases[i]].parent].attrib
  /\ shield = <<"r">>
  /\ shield # doc[doc[cases[i]].parent].attrib["shield"]

(***************************************************************************)
(* C6                                                                      *)
(***************************************************************************)
\* the rules of the document in document order: of any element name, and
\* the case elements among them
AllRules == AnyRulesIn(Upto(Len(doc)))
AllCaseRules == RulesIn(Upto(Len(doc)))

\* C6 as stated: the list the loop runs over holds, in document order and
\* without deduplication, all nodes of any element name with non-empty tag,
\* value and icon, and exactly these are processed (tallied).
C6_RulesOfAnyElementName ==
  (script = "point" /\ pc \in {"loop", "done"}) =>
    /\ AnyRulesIn(cases) = AllRules
    /\ Tally = Len(AnyRulesIn(SubSeq(cases, 1, i)))

\* C6 amended: the list the loop runs over holds, in document order and
\* without deduplication, all case elements with non-empty tag, value and
\* icon, and exactly these are processed (tallied).
C6_CaseRulesInDocumentOrder ==
  (script = "point" /\ pc \in {"loop", "done"}) =>
    /\ RulesIn(cases) = AllCaseRules
    /\ Tally = Len(RulesIn(SubSeq(cases, 1, i)))

\* C6 witness: the loop has ended on a document with a whitespace-only tag,
\* a case without icon and two rules of the same name
C6_Witness ==
  /\ script = "point" /\ pc = "done"
  /\ Len(AllCaseRules) = 2
  /\ NameOf(AllCaseRules[1]) = NameOf(AllCaseRules[2])
  /\ \E n \in 2..Len(doc) :
       /\ doc[n].elem = "case" /\ "tag" \in DOMAIN doc[n].attrib
       /\ Blank(n, "tag") \/ Blank(n, "icon")
  /\ Tally = 2

(***************************************************************************)
(* Vocabulary of the properties of the road script.                        *)
(***************************************************************************)
Ancestors(n) == AncestorsOrSelf(doc, doc[n].parent)

\* the first line element of the document
FirstLine == CHOOSE l \in 2..Len(doc) :
               doc[l].elem = "line" /\ \A m \in 2..(l - 1) : doc[m].elem # "line"

NonEmptyAttr(n, key) == key \in DOMAIN doc[n].attrib /\ doc[n].attrib[key] # <<>>

\* a case inside the first line element with tag="highway" and non-empty
\* value and color
HighwayCase(n) ==
  /\ doc[n].elem = "case"
  /\ FirstLine \in Ancestors(n)
  /\ "tag" \in DOMAIN doc[n].attrib /\ doc[n].attrib["tag"] = <<"h","i","g","h","w","a","y">>
  /\ NonEmptyAttr(n, "value") /\ NonEmptyAttr(n, "color")

\* the switch elements inside the first line element that contain n
SwitchesAround(n) ==
  {a \in Ancestors(n) : doc[a].elem = "switch" /\ FirstLine \in Ancestors(a)}

DeclaresZoom14(a) == "minzoom" \in DOMAIN doc[a].attrib /\ doc[a].attrib["minzoom"] = <<"1","4">>

\* the nearest containing switch declares minzoom="14"
NearestSwitchIs14(n) ==
  /\ SwitchesAround(n) # {}
  /\ DeclaresZoom14(Nearest(SwitchesAround(n)))

\* some containing switch declares minzoom="14"
SomeSwitchIs14(n) == \E a \in SwitchesAround(n) : DeclaresZoom14(a)

CollectedByNearest == {n \in 2..Len(doc) : HighwayCase(n) /\ NearestSwitchIs14(n)}
CollectedByAny == {n \in 2..Len(doc) : HighwayCase(n) /\ SomeSwitchIs14(n)}

ValuesOf(C) == {doc[n].attrib["value"] : n \in C}

\* the first case of C, in document order, that has value v
FirstWith(C, v) ==
  CHOOSE n \in C : doc[n].attrib["value"] = v
                   /\ \A m \in C : doc[m].attrib["value"] = v => n <= m

CuratedValues == {additional_roads[k].value : k \in DOMAIN additional_roads}

\* the colour a table gives to a "$name" reference
TableColor(ref) ==
  IF Tail(ref) \in DOMAIN color_definitions
  THEN color_definitions[Tail(ref)]
  ELSE <<"#","0","0","0","0","0","0">>

\* the road list is one record per value of the cases C, each built from
\* the first case of its value and in the order of these first cases,
\* followed by records of curated values only
DocumentDerivedFrom(C) ==
  LET n == Cardinality(ValuesOf(C))
  IN  /\ Len(roads) = n + Cardinality(CuratedValues \ ValuesOf(C))
      /\ \A j \in 1..n :
           /\ roads[j].value \in ValuesOf(C)
           /\ roads[j].tag = <<"h","i","g","h","w","a","y">>
           /\ roads[j].color
                = (LET c == doc[FirstWith(C, roads[j].value)].attrib["color"]
                   IN  IF c[1] = "$" THEN TableColor(c) ELSE c)
           /\ \A k \in 1..n : k # j => roads[k].value # roads[j].value
           /\ \A k \in 1..n :
                k < j => FirstWith(C, roads[k].value) < FirstWith(C, roads[j].value)
      /\ \A j \in (n + 1)..Len(roads) : roads[j].value \in CuratedValues \ ValuesOf(C)

RoadsExtracted == script = "road" /\ pc \in {"roads", "done"}

(***************************************************************************)
(* C1                                                                      *)
(***************************************************************************)
\* C1: in the output document of either script no two symbols carry the
\* same name.
C1_UniqueSymbolNames ==
  (pc = "done") =>
    \A j, k \in DOMAIN symbols : j # k => symbols[j].name # symbols[k].name

(***************************************************************************)
(* C7                                                                      *)
(***************************************************************************)
\* C7 as stated: the document-derived records are one per distinct value,
\* built from the first of the highway cases whose nearest containing switch
\* declares minzoom="14"; other highway cases are not collected.
C7_NearestSwitchDecides ==
  RoadsExtracted => DocumentDerivedFrom(CollectedByNearest)

\* C7 amended: the document-derived records are one per distinct value, built
\* from the first of the highway cases that have some containing switch,
\* inside the first line element, declaring minzoom="14"; highway cases
\* without such a switch are not collected, later cases of a value are
\* discarded.
C7_AnyContainingSwitchDecides ==
  RoadsExtracted => DocumentDerivedFrom(CollectedByAny)

\* C7 witness: the list was extracted from a document where two collected
\* cases share a value and differ in colour, and the first one made the record
C7_Witness ==
  /\ RoadsExtracted
  /\ \E n, m \in CollectedByAny :
       /\ n < m
       /\ doc[n].attrib["value"] = doc[m].attrib["value"]
       /\ doc[n].attrib["color"] # doc[m].attrib["color"]
       /\ roads[1].value = doc[n].attrib["value"]
       /\ roads[1].color = doc[n].attrib["color"]

(***************************************************************************)
(* C8                                                                      *)
(***************************************************************************)
\* the positions of the road list that hold value v
RecordsOf(v) == {j \in DOMAIN roads : roads[j].value = v}

\* C8: every curated value that is not document-derived has exactly one
\* record, with the curated width and the colour its variable resolves to in
\* the colour table; a document-derived curated value has its
\* document-derived record only.
C8_SupplementaryRoads ==
  RoadsExtracted =>
    \A e \in DOMAIN additional_roads :
      LET v == additional_roads[e].value
      IN  /\ Cardinality(RecordsOf(v)) = 1
          /\ \A j \in RecordsOf(v) :
               IF v \notin ValuesOf(CollectedByAny)
               THEN /\ j > Cardinality(ValuesOf(CollectedByAny))
                    /\ roads[j].stroke_width = additional_roads[e].width
                    /\ roads[j].color = TableColor(additional_roads[e].color_var)
               ELSE j <= Cardinality(ValuesOf(CollectedByAny))

\* C8 witness: the list was extracted from a document that derives "service"
\* itself, and the other eight curated values were appended
C8_Witness ==
  /\ RoadsExtracted
  /\ <<"s","e","r","v","i","c","e">> \in ValuesOf(CollectedByAny)
  /\ Cardinality(ValuesOf(CollectedByAny)) = 1
  /\ Len(roads) = 9
  /\ roads[3].value = <<"f","o","o","t","w","a","y">>
  /\ roads[3].color = <<"#","f","a","8","c","1","6">>

(***************************************************************************)
(* C9                                                                      *)
(***************************************************************************)
\* a literal hex colour #rrggbb
IsLiteralHex(s) ==
  /\ Len(s) = 7
  /\ s[1] = "#"
  /\ \A k \in 2..7 : s[k] \in {"0","1","2","3","4","5","6","7","8","9",
                               "a","b","c","d","e","f","A","B","C","D","E","F"}

\* C9: the result of resolve_color_variable is a literal hex colour: the
\* table's entry for "$name" with name in the table, the argument itself
\* when it is a literal hex colour, and "#000000" for everything else.
C9_ResolveColorVariable ==
  (script = "resolve" /\ pc = "done") =>
    /\ IsLiteralHex(resolved)
    /\ resolved =
         (IF /\ color_var # <<>> /\ color_var[1] = "$"
             /\ Tail(color_var) \in DOMAIN color_definitions
          THEN color_definitions[Tail(color_var)]
          ELSE IF IsLiteralHex(color_var) THEN color_var
          ELSE <<"#","0","0","0","0","0","0">>)

(***************************************************************************)
(* C10                                                                     *)
(***************************************************************************)
\* the renderingAttribute elements named name, a name that contains "Color"
ColorAttributes(name) ==
  {k \in 2..Len(doc) :
     /\ doc[k].elem = "renderingAttribute"
     /\ "name" \in DOMAIN doc[k].attrib /\ doc[k].attrib["name"] = name
     /\ \E p \in 1..(Len(name) - 4) : SubSeq(name, p, p + 4) = <<"C","o","l","o","r">>}

\* the candidate cases of a renderingAttribute: those with a "#" value
Candidates(k) ==
  {c \in (k + 1)..Len(doc) :
     /\ k \in Ancestors(c)
     /\ doc[c].elem = "case"
     /\ "attrColorValue" \in DOMAIN doc[c].attrib
     /\ doc[c].attrib["attrColorValue"] # <<>>
     /\ doc[c].attrib["attrColorValue"][1] = "#"}

Conditions(c) == Cardinality(DOMAIN doc[c].attrib) - 1

\* the candidate with the fewest conditions, the first of these
MostGeneral(k) ==
  CHOOSE c \in Candidates(k) :
    \A o \in Candidates(k) :
      Conditions(c) < Conditions(o) \/ (Conditions(c) = Conditions(o) /\ c <= o)

\* the names the document gives a colour, and the colour: that of the last
\* renderingAttribute of the name that has candidates
ExtractedNames ==
  {doc[k].attrib["name"] :
     k \in {a \in 2..Len(doc) :
              /\ doc[a].elem = "renderingAttribute"
              /\ "name" \in DOMAIN doc[a].attrib
              /\ a \in ColorAttributes(doc[a].attrib["name"])
              /\ Candidates(a) # {}}}

ExtractedColor(name) ==
  doc[MostGeneral(Nearest({k \in ColorAttributes(name) : Candidates(k) # {}}))]
    .attrib["attrColorValue"]

ManualKeys == {manual_colors[k].key : k \in DOMAIN manual_colors}
ManualValue(key) == manual_colors[CHOOSE k \in DOMAIN manual_colors :
                                    manual_colors[k].key = key].value

TableBuilt == script = "road" /\ pc \in {"colors", "roads", "done", "failed"}

RoadRule == Len(RoadRulePrefix)

\* the rules nested in the road rule
NestedRules == {c \in (RoadRule + 1)..Len(doc) : RoadRule \in Ancestors(c)}

WidthRules == {c \in NestedRules : "strokeWidth" \in DOMAIN doc[c].attrib}

\* the nested rules that give a strokeWidth at zoom level 16
Zoom16Rules ==
  {c \in WidthRules :
     \E key \in {"minzoom", "maxzoom"} :
       key \in DOMAIN doc[c].attrib /\ doc[c].attrib[key] = zoom_level}

\* the run has ended, with a list of roads or without one
StrokeSettled ==
  /\ script = "road" /\ pc \in {"roads", "done", "failed"}
  /\ Len(doc) >= RoadRule /\ SubSeq(doc, 1, RoadRule) = RoadRulePrefix

\* C11: the run is never aborted by the width extraction; with a nested rule
\* that gives a strokeWidth at zoom level 16 the road's width is the width of
\* such a rule (the part before ":"), whatever other nested rules there are;
\* without any strokeWidth below the road rule it is the default 2.0.
C11_WidthAtZoom16 ==
  StrokeSettled =>
    /\ pc # "failed"
    /\ Zoom16Rules # {} =>
         \E c \in Zoom16Rules :
           roads[1].stroke_width = ParseWidth(doc[c].attrib["strokeWidth"])
    /\ WidthRules = {} => roads[1].stroke_width = DefaultWidth

(***************************************************************************)
(* C12                                                                     *)
(***************************************************************************)
\* 10 to the power n
RECURSIVE Pow10(_)
Pow10(n) == IF n = 0 THEN 1 ELSE 10 * Pow10(n - 1)

\* the number a numeral with at most five decimals denotes, in units of
\* 0.00001
InHundredThousandths(text) ==
  IntValue(Before(text, ".")) * Pow10(5)
  + IntValue(After(text, ".")) * Pow10(5 - Len(After(text, ".")))

\* the channels of a literal hex colour #rrggbb
Channels(color) ==
  [ r |-> 16 * HexValue(color[2]) + HexValue(color[3]),
    g |-> 16 * HexValue(color[4]) + HexValue(color[5]),
    b |-> 16 * HexValue(color[6]) + HexValue(color[7]),
    a |-> 255 ]

\* C12: the symbol of every road record has exactly two layers, the stroke
\* layer first with pass 0 and the fill layer second with pass 1; the stroke
\* layer has the record's width unmodified and the dark gray #565656, the fill
\* layer has 0.8 times the record's width written with five decimals and the
\* record's colour.
C12_TwoLayersAndWidths ==
  (script = "road" /\ pc = "done") =>
    /\ Len(symbols) = Len(roads)
    /\ \A k \in DOMAIN roads :
         LET layers == symbols[k].layers
         IN  /\ Len(layers) = 2
             /\ layers[1].pass = <<"0">> /\ layers[2].pass = <<"1">>
             /\ InHundredThousandths(layers[1].line_width)
                  = roads[k].stroke_width * Pow10(4)
             /\ layers[1].line_color = Channels(<<"#","5","6","5","6","5","6">>)
             /\ Len(After(layers[2].line_width, ".")) = 5
             /\ 10 * InHundredThousandths(layers[2].line_width)
                  = 8 * roads[k].stroke_width * Pow10(4)
             /\ IsLiteralHex(roads[k].color) =>
                  layers[2].line_color = Channels(roads[k].color)

\* C12 witness: the symbol of a road whose width 4.5 comes from the document
\* has a stroke layer of width 4.5 and a fill layer of width 3.60000
C12_Witness ==
  /\ script = "road" /\ pc = "done"
  /\ roads[1].stroke_width = 45
  /\ symbols[1].layers[1].line_width = <<"4",".","5">>
  /\ symbols[1].layers[2].line_width = <<"3",".","6","0","0","0","0">>
  /\ symbols[1].layers[2].line_color = [r |-> 170, g |-> 170, b |-> 170, a |-> 255]

(***************************************************************************)
(* C13                                                                     *)
(***************************************************************************)
\* the rule that symbol k of the point output was made from: the first
\* emittable case rule of the symbol's name
SourceRule(k) ==
  CHOOSE m \in 2..Len(doc) :
    /\ IsCaseRule(m) /\ Emittable(m) /\ NameOf(m) = symbols[k].name
    /\ \A l \in 2..(m - 1) :
         ~(IsCaseRule(l) /\ Emittable(l) /\ NameOf(l) = symbols[k].name)

\* the position of a curated value in additional_roads
CuratedIndex(v) == CHOOSE e \in DOMAIN additional_roads : additional_roads[e].value = v

\* C13: the symbols are in the order in which their source rules were met.
\* Points: the symbols are in the document order of the rules they were made
\* from.  Roads: symbol k is the symbol of record k; the document-derived
\* records come first, in the document order of the first case of their
\* value, and the curated records follow them in the order of the curated
\* list.
C13_EncounterOrder ==
  /\ (script = "point" /\ pc \in {"loop", "done"}) =>
       \A j, k \in DOMAIN symbols : j < k => SourceRule(j) < SourceRule(k)
  /\ (script = "road" /\ pc = "done") =>
       LET n == Cardinality(ValuesOf(CollectedByAny))
       IN  /\ Len(symbols) = Len(roads)
           /\ \A k \in DOMAIN roads : symbols[k].name = RoadSymbolName(roads[k].value)
           /\ \A j, k \in 1..n :
                j < k => FirstWith(CollectedByAny, roads[j].value)
                           < FirstWith(CollectedByAny, roads[k].value)
           /\ \A k \in (n + 1)..Len(roads) : roads[k].value \in CuratedValues
           /\ \A j, k \in (n + 1)..Len(roads) :
                j < k => CuratedIndex(roads[j].value) < CuratedIndex(roads[k].value)

\* C13 witness: the road output holds the symbols of two values of the
\* document, in document order, and the curated symbols after them
C13_Witness ==
  /\ script = "road" /\ pc = "done"
  /\ Cardinality(ValuesOf(CollectedByAny)) = 2
  /\ Len(symbols) > 2
  /\ \E a, b \in CollectedByAny :
       /\ a < b
       /\ symbols[1].name = RoadSymbolName(doc[a].attrib["value"])
       /\ symbols[2].name = RoadSymbolName(doc[b].attrib["value"])
       /\ doc[a].attrib["value"] # doc[b].attrib["value"]
  /\ symbols[3].name = RoadSymbolName(additional_roads[2].value)

(***************************************************************************)
(* C14                                                                     *)
(***************************************************************************)
\* the rules with non-empty tag, value and icon among the first n entries of
\* the list the loop runs over
RulesProcessed(n) == Len(RulesIn(SubSeq(cases, 1, n)))

\* the four tallies
Tallies == <<processed_count, skipped_duplicates, skipped_no_shield, skipped_no_files>>

\* C14: between the iterations of the point main loop and at its end the four
\* tallies add up to the number of rules with non-empty tag, value and icon
\* processed so far, and processed_count is the number of symbols in the
\* output; an iteration over such a rule adds one to exactly one tally, and
\* to skipped_duplicates when the rule's name is already in the output, also
\* when the rule has no shield or no file.
C14_TalliesPartition ==
  /\ []((script = "point" /\ pc \in {"loop", "done"}) =>
          /\ Tally = RulesProcessed(i)
          /\ processed_count = Len(symbols))
  /\ [][ (InLoop /\ IsPointRule(cases[i + 1])) =>
           /\ \E t \in 1..4 :
                /\ Tallies'[t] = Tallies[t] + 1
                /\ \A u \in 1..4 : u # t => Tallies'[u] = Tallies[u]
           /\ NameInOutput(NameOf(cases[i + 1])) =>
                (skipped_duplicates' = skipped_duplicates + 1 /\ symbols' = symbols) ]_vars

\* C14 witness: the loop has passed a rule without a shield whose name was
\* already in the output, and the rule is in the tally of duplicates
C14_Witness ==
  /\ script = "point" /\ pc \in {"loop", "done"} /\ i >= 2
  /\ IsCaseRule(cases[i])
  /\ ~Resolvable(cases[i])
  /\ NameInOutput(NameOf(cases[i]))
  /\ skipped_duplicates = 1
  /\ skipped_no_shield = 0
  /\ processed_count = 1

====
